---- MODULE Spec2Model ----
(***************************************************************************)
(* The GKC vxm kernels of GBTL (src/graphblas/platforms/GKC/sparse_vxm.hpp) *)
(* as a state machine: a call of                                            *)
(*     vxm(w, mask, accum, op, u, A, outp)                                  *)
(* on GKCDenseVector operands (lines 205-412) or on GKCSparseVector         *)
(* operands (lines 444-577), from the call site to the return; and the      *)
(* adjacency-list iterator of a row-of-rows matrix                          *)
(* (src/graphblas/detail/iterators/LilSparseMatrixIterator.hpp).            *)
(*                                                                          *)
(* A vector is a function from its indices to a stored scalar or Absent.    *)
(* Scalars are unsigned integers of ScalarBits bits (ScalarT) or of         *)
(* TBits(op) bits (SemiringT::result_type).                                 *)
(***************************************************************************)
EXTENDS Integers, Sequences, FiniteSets, TLC

----------------------------------------------------------------------------
(* Bounds of the model *)

\* size of u, w, the mask and of both dimensions of A in the enumerated calls
N == 2
\* largest OpenMP team that runs the scatter loop of the dense kernel
MaxThreads == 2
\* width of ScalarT
ScalarBits == 4
\* largest number of vxm calls a caller chains, the output of one being the
\* input vector of the next
MaxCalls == 2
\* largest number of rows, and of columns, of a matrix an adjacency-list
\* iterator walks
MaxRows == 3
MaxCols == 2
\* width of the iterator's size_type (the type of row_ and of size() - 1)
IndexBits == 3

----------------------------------------------------------------------------
(* Scalars and containers *)

Absent == 0 - 1

SMod == 2 ^ ScalarBits

VARIABLES
    kernel,     \* "dense": lines 205-412, "sparse": lines 444-577
    size,       \* w.size(), the size the kernel works on
    w,          \* the output vector
    mask,       \* [kind, vec]: the mask argument and the vector it wraps
    accum,      \* "NoAccumulate" or the name of a binary operator
    op,         \* the semiring
    u,          \* the input vector
    A,          \* the matrix, A[row][col]
    outp,       \* "REPLACE" or "MERGE"
    nthreads,   \* size of the OpenMP team (dense kernel)
    aliased,    \* TRUE when the caller passed one vector object as w and as u
    w0,         \* w as it was when the call began (never written)
    pc,         \* "call", "rejected", "entry", "scatter", "merge", "done"
    t,          \* the temporary
    mask_vec,   \* sparse kernel: the densified mask (std::vector<bool>)
    task,       \* dense kernel: one scatter task per source index
    merged,     \* dense kernel: the destination indices the merge loop has done
    unsorted,   \* sparse kernel: the unsorted flag of u, of t and of w
    misread,    \* the vectors whose idxBegin/idxEnd/wgtBegin were called
                \* while their unsorted flag was set
    calls,      \* the number of the call under way
    wPrev,      \* what the call before this one left in w
    matrix,     \* the row-of-rows matrix an adjacency-list iterator walks
    row_,       \* adjacency_list_view_accessor::row_
    col_,       \* adjacency_list_view_accessor::col_, [row, pos]: position
                \* pos of the row it is an iterator of
    ipc,        \* the traversal: "none", "built", "loop", "done"
    yielded,    \* the keys the traversal has dereferenced, in order
    advances,   \* the number of operator++ the traversal has made
    indexed     \* the row indices the accessor has handed to matrix_()[.]

\* the state of an adjacency-list traversal
iter == <<matrix, row_, col_, ipc, yielded, advances, indexed>>

\* the state of a vxm call
call == <<kernel, size, w, mask, accum, op, u, A, outp, nthreads, aliased, w0,
          pc, t, mask_vec, task, merged, unsorted, misread, calls, wPrev>>

vars == <<call, iter>>

\* what no step of a kernel writes: the arguments other than w and u, and
\* what lies outside the call
inputs == <<kernel, size, mask, accum, op, A, outp, nthreads, aliased, w0,
            calls, wPrev, iter>>

\* the unsorted flags, which only the sparse vectors have
flags == <<unsorted, misread>>

Idx == 0 .. (size - 1)

Min(a, b) == IF a <= b THEN a ELSE b

\* GKCDenseVector / GKCSparseVector (their class is not part of src/)
hasElement(v, i) == v[i] # Absent

nvals(v) == Cardinality({i \in DOMAIN v : v[i] # Absent})

\* GKCMatrix::nvals()
nvalsMatrix(M) ==
    Cardinality({ij \in (DOMAIN M) \X (DOMAIN M) : M[ij[1]][ij[2]] # Absent})

clear(v) == [i \in DOMAIN v |-> Absent]

boolRemoveElement(v, i) == [v EXCEPT ![i] = Absent]

\* setElement into a vector whose scalar type has modulus m
setElement(v, i, x, m) == [v EXCEPT ![i] = x % m]

----------------------------------------------------------------------------
(* The semiring and the accumulate operator (template arguments) *)

\* semirings over ScalarT: (plus, times) and (min, first operand)
Semirings == {"Arithmetic", "MinSelect1st"}

\* (min, plus) with a result type twice as wide as ScalarT
WideSemirings == {"MinPlusWide"}

\* width of SemiringT::result_type
TBits(s) == IF s \in WideSemirings THEN 2 * ScalarBits ELSE ScalarBits

TMod == 2 ^ TBits(op)

\* op.mult(a, b)
Mult(a, b) ==
    IF op = "Arithmetic" THEN (a * b) % TMod
    ELSE IF op = "MinPlusWide" THEN (a + b) % TMod
    ELSE a

\* op.add(a, b)
Add(a, b) == IF op = "Arithmetic" THEN (a + b) % TMod ELSE Min(a, b)

Accums == {"NoAccumulate", "Minus"}

\* accum(existing, incoming); NoAccumulate yields the incoming value
Accum(a, b) == IF accum = "Minus" THEN (a - b) % SMod ELSE b

\* the binary operator handed to mergeSetElement: the accumulate operator
\* (lines 374, 388, 543) or AdditiveMonoidFromSemiring(op) (line 529)
Apply(f, a, b) == IF f = "accum" THEN Accum(a, b) ELSE Add(a, b)

\* mergeSetElement(i, x, f) on a vector whose scalar type has modulus m:
\* set if absent, else replace by f(existing, x)
mergeSetElement(v, i, x, f, m) ==
    IF v[i] = Absent THEN [v EXCEPT ![i] = x % m]
                     ELSE [v EXCEPT ![i] = Apply(f, v[i], x) % m]

----------------------------------------------------------------------------
(* The mask *)

MaskKinds == {"Vector", "Complement", "Structure", "StructuralComplement"}

\* lines 222-223
comp == mask.kind \in {"Complement", "StructuralComplement"}
strc == mask.kind \in {"Structure", "StructuralComplement"}

NoMask == mask.kind = "NoMask"

\* mask_vec.boolExtractElement(i, val): presence; val is the stored value
boolExtractElement(i) == mask.vec[i] # Absent
truthy(i) == mask.vec[i] # 0

\* lines 310 and 382: comp ^ (boolExtractElement(i, val) && (strc || val))
MaskTest(i) == comp # (boolExtractElement(i) /\ (strc \/ truthy(i)))

\* lines 250-264, the REPLACE pre-pass of the dense kernel.  When the entry
\* is absent val is not written, and remove is already true before
\* "remove |= !val", so the value read there does not matter.
DenseRemove(i) ==
    LET remove == IF ~strc THEN (~boolExtractElement(i)) \/ (~truthy(i))
                           ELSE ~hasElement(mask.vec, i)
    IN  IF comp THEN ~remove ELSE remove

----------------------------------------------------------------------------
(* Dense kernel, lines 205-412 *)

\* mutant: the kernel stores into u what it stores into w
WrittenU(wn) == wn

\* lines 205 and 209 (444 and 448): w is a reference and u a reference to
\* const; when the caller passed one object as both, u reads what the
\* kernel has written to w
AliasedU(wn) == IF aliased THEN wn ELSE u

\* line 225
NonEmpty == nvalsMatrix(A) > 0 /\ nvals(u) > 0

\* lines 228-272: what the kernel does to w before the scatter
DensePrepass(v) ==
    IF accum = "NoAccumulate"
    THEN IF NoMask THEN clear(v)
         ELSE IF outp = "REPLACE" THEN clear(v) ELSE v
    ELSE IF ~NoMask /\ outp = "REPLACE"
         THEN [i \in DOMAIN v |-> IF DenseRemove(i) THEN Absent ELSE v[i]]
         ELSE v

IdleTask == [pc |-> "idle", col |-> 0, has |-> FALSE, val |-> 0]
DoneTask == [pc |-> "done", col |-> 0, has |-> FALSE, val |-> 0]

\* lines 286-287 with the filter of lines 289 and 310: the entries of row idx
\* of A, in column order, that the scatter combines into t
ScatterCols(idx) ==
    {c \in Idx : A[idx][c] # Absent /\ (NoMask \/ MaskTest(c))}

\* the first such column at or after from; size when the row is exhausted
NextCol(idx, from) ==
    IF \E c \in ScatterCols(idx) : c >= from
    THEN CHOOSE c \in ScatterCols(idx) :
             c >= from /\ \A d \in ScatterCols(idx) : d >= from => c <= d
    ELSE size

\* a task at column c, or finished when the row is exhausted
TaskAt(c) ==
    IF c = size THEN DoneTask
    ELSE [pc |-> "read", col |-> c, has |-> FALSE, val |-> 0]

Active == {i \in Idx : task[i].pc \in {"read", "write"}}

\* lines 225 false: the kernel returns without touching w
DenseEarlyExit ==
    /\ kernel = "dense" /\ pc = "entry"
    /\ ~NonEmpty
    /\ pc' = "done"
    /\ UNCHANGED <<inputs, flags, w, t, mask_vec, task, merged>>
    /\ u' = AliasedU(w')

\* lines 228-275: pre-pass on w, then t is created empty
DenseEnter ==
    /\ kernel = "dense" /\ pc = "entry"
    /\ NonEmpty
    /\ w' = DensePrepass(w)
    /\ t' = [i \in Idx |-> Absent]
    /\ pc' = "scatter"
    /\ UNCHANGED <<inputs, flags, mask_vec, task, merged>>
    /\ u' = AliasedU(w')

\* lines 277-283: a thread of the team takes the next iteration of the outer
\* loop; iterations are handed out in index order, at most nthreads at once.
\* The inner loop (line 285) is a nested parallel region: it runs on the
\* thread that reached it, and its iterations write distinct columns, so a
\* task walks its row in column order.
TaskStart(idx) ==
    /\ kernel = "dense" /\ pc = "scatter"
    /\ task[idx].pc = "idle"
    /\ \A i \in Idx : i < idx => task[i].pc # "idle"
    /\ Cardinality(Active) < nthreads
    /\ task' = [task EXCEPT ![idx] =
                   IF hasElement(u, idx) THEN TaskAt(NextCol(idx, 0))
                                         ELSE DoneTask]
    /\ UNCHANGED <<inputs, flags, w, t, pc, mask_vec, merged>>
    /\ u' = AliasedU(w')

\* lines 291/293 and 312/315: t.hasElement(*aitr) and t[*aitr] are read
TaskRead(idx) ==
    /\ kernel = "dense" /\ pc = "scatter"
    /\ task[idx].pc = "read"
    /\ task' = [task EXCEPT ![idx] =
                   [pc |-> "write", col |-> @.col,
                    has |-> hasElement(t, @.col),
                    val |-> IF hasElement(t, @.col) THEN t[@.col] ELSE 0]]
    /\ UNCHANGED <<inputs, flags, w, t, pc, mask_vec, merged>>
    /\ u' = AliasedU(w')

\* lines 293/298 and 315/320: the value the task stores, a ScalarT
ScatterValue(idx, c, has, val) ==
    IF has THEN Add(val, Mult(A[idx][c], u[idx])) % SMod
           ELSE Mult(A[idx][c], u[idx]) % SMod

\* lines 294/299 and 316/321: t.setElement(*aitr, val), then ++aitr
TaskWrite(idx) ==
    /\ kernel = "dense" /\ pc = "scatter"
    /\ task[idx].pc = "write"
    /\ LET c == task[idx].col
       IN  /\ t' = setElement(t, c,
                       ScatterValue(idx, c, task[idx].has, task[idx].val), TMod)
           /\ task' = [task EXCEPT ![idx] = TaskAt(NextCol(idx, c + 1))]
    /\ UNCHANGED <<inputs, flags, w, pc, mask_vec, merged>>
    /\ u' = AliasedU(w')

\* mutant: the loop ends with "nowait", the team does not wait at its end
ScatterFinishedNoWait == \E i \in Idx : task[i].pc = "done"

\* the scatter loop has ended: every iteration has run to its end
ScatterFinished == \A i \in Idx : task[i].pc = "done"

\* line 346: the implicit barrier that ends the parallel loop
DenseJoin ==
    /\ kernel = "dense" /\ pc = "scatter"
    /\ ScatterFinished
    /\ pc' = "merge"
    /\ UNCHANGED <<inputs, flags, w, t, mask_vec, task, merged>>
    /\ u' = AliasedU(w')

\* lines 353-369: no mask and an accumulate operator: w = std::move(t) (or
\* w = t with conversion), then break.  t is dead after the move; the model
\* leaves its value in place.
DenseMergeMove ==
    /\ kernel = "dense" /\ pc = "merge"
    /\ NoMask /\ accum # "NoAccumulate"
    /\ w' = [i \in Idx |-> IF t[i] = Absent THEN Absent ELSE t[i] % SMod]
    /\ pc' = "done"
    /\ UNCHANGED <<inputs, flags, t, mask_vec, task, merged>>
    /\ u' = AliasedU(w')

\* lines 370-409: one iteration of the merge loop
DenseMergeW(idx) ==
    IF NoMask
    THEN IF hasElement(t, idx)
         THEN mergeSetElement(w, idx, t[idx], "accum", SMod)
         ELSE w
    ELSE IF MaskTest(idx)
         THEN IF accum # "NoAccumulate"
              THEN IF hasElement(t, idx)
                   THEN mergeSetElement(w, idx, t[idx], "accum", SMod)
                   ELSE w
              ELSE IF hasElement(t, idx)
                   THEN setElement(w, idx, t[idx], SMod)
                   ELSE boolRemoveElement(w, idx)
         ELSE IF outp = "REPLACE" THEN boolRemoveElement(w, idx) ELSE w

DenseMerge(idx) ==
    /\ kernel = "dense" /\ pc = "merge"
    /\ ~(NoMask /\ accum # "NoAccumulate")
    /\ idx \notin merged
    /\ w' = DenseMergeW(idx)
    /\ merged' = merged \cup {idx}
    /\ pc' = IF merged' = Idx THEN "done" ELSE "merge"
    /\ UNCHANGED <<inputs, flags, t, mask_vec, task>>
    /\ u' = AliasedU(w')

----------------------------------------------------------------------------
(* Sparse kernel, lines 444-577 *)

\* lines 462-470: the densified mask, set at every index the mask's index
\* sequence (idxBegin .. idxEnd) holds
DensifiedMask ==
    [i \in Idx |-> IF NoMask THEN FALSE ELSE hasElement(mask.vec, i)]

\* lines 472-502: what the kernel does to w before the scatter
SparsePrepass(v, mv) ==
    IF accum = "NoAccumulate"
    THEN IF NoMask THEN clear(v)
         ELSE IF outp = "REPLACE" THEN clear(v) ELSE v
    ELSE IF ~NoMask /\ outp = "REPLACE"
         THEN [i \in DOMAIN v |-> IF ~mv[i] THEN Absent ELSE v[i]]
         ELSE v

\* lines 459-502
SparseEnter ==
    /\ kernel = "sparse" /\ pc = "entry"
    /\ mask_vec' = DensifiedMask
    /\ w' = SparsePrepass(w, mask_vec')
    /\ t' = [i \in Idx |-> Absent]
    /\ unsorted' = [unsorted EXCEPT !.t = FALSE]
    /\ pc' = "scatter"
    /\ UNCHANGED <<inputs, misread, task, merged>>
    /\ u' = AliasedU(w')

\* line 521: the scatter filter
SparseAllowed(c) == NoMask \/ mask_vec[c]

\* lines 515-534: the entries of u in index order, for each the entries of
\* its row of A in column order; entry k of that order is (k \div size,
\* k % size)
RECURSIVE SparseScatter(_, _)
SparseScatter(k, tt) ==
    IF k = size * size THEN tt
    ELSE LET idx == k \div size
             c   == k % size
         IN  SparseScatter(k + 1,
                 IF hasElement(u, idx) /\ A[idx][c] # Absent /\ SparseAllowed(c)
                 THEN mergeSetElement(tt, c, Mult(u[idx], A[idx][c]), "add", TMod)
                 ELSE tt)

\* GKCSparseVector::mergeSetElement(i, ...) where the vector has no entry at
\* i: the entry is inserted in order when no stored index is larger,
\* otherwise the vector sets its unsorted flag
appendsOutOfOrder(v, i) ==
    ~hasElement(v, i) /\ \E j \in DOMAIN v : j > i /\ hasElement(v, j)

\* lines 515-534: whether an insertion of the scatter sets the unsorted
\* flag of t; f is the flag so far
RECURSIVE SparseScatterUnsorted(_, _, _)
SparseScatterUnsorted(k, tt, f) ==
    IF k = size * size THEN f
    ELSE LET idx == k \div size
             c   == k % size
             hit == hasElement(u, idx) /\ A[idx][c] # Absent /\ SparseAllowed(c)
         IN  SparseScatterUnsorted(k + 1,
                 IF hit
                 THEN mergeSetElement(tt, c, Mult(u[idx], A[idx][c]), "add", TMod)
                 ELSE tt,
                 f \/ (hit /\ appendsOutOfOrder(tt, c)))

\* a call of v.idxBegin(), v.idxEnd() or v.wgtBegin() on the sparse vector
\* named v: recorded when the unsorted flag of v is set
OrderedRead(v) == IF unsorted[v] THEN misread \cup {v} ELSE misread

\* lines 504-534; lines 512-514 take u.idxBegin(), u.idxEnd(), u.wgtBegin()
SparseScatterAll ==
    /\ kernel = "sparse" /\ pc = "scatter"
    /\ NonEmpty
    /\ misread' = OrderedRead("u")
    /\ t' = SparseScatter(0, t)
    /\ unsorted' = [unsorted EXCEPT !.t = SparseScatterUnsorted(0, t, unsorted.t)]
    /\ pc' = "merge"
    /\ UNCHANGED <<inputs, w, mask_vec, task, merged>>
    /\ u' = AliasedU(w')

\* line 576: w.setUnsorted(); u carries the flag too when it is w
SetUnsortedW == [unsorted EXCEPT !.w = TRUE, !.u = IF aliased THEN TRUE ELSE @]

\* line 504 false, then line 576
SparseSkip ==
    /\ kernel = "sparse" /\ pc = "scatter"
    /\ ~NonEmpty
    /\ unsorted' = SetUnsortedW
    /\ pc' = "done"
    /\ UNCHANGED <<inputs, misread, w, t, mask_vec, task, merged>>
    /\ u' = AliasedU(w')

\* lines 536-574
SparseMergeW ==
    IF accum # "NoAccumulate"
    THEN [i \in Idx |-> IF hasElement(t, i)
                        THEN mergeSetElement(w, i, t[i], "accum", SMod)[i]
                        ELSE w[i]]
    ELSE IF outp = "REPLACE"
         THEN [i \in Idx |-> IF hasElement(t, i) THEN t[i] % SMod ELSE Absent]
         ELSE [i \in Idx |-> IF hasElement(t, i)
                             THEN setElement(w, i, t[i], SMod)[i]
                             ELSE w[i]]

\* lines 539-541 and 564-566 take t.idxBegin(), t.idxEnd(), t.wgtBegin();
\* lines 550-561 assign t to w without walking it
SparseMergeWalksT == accum # "NoAccumulate" \/ outp # "REPLACE"

\* lines 535-576
SparseMerge ==
    /\ kernel = "sparse" /\ pc = "merge"
    /\ misread' = IF SparseMergeWalksT THEN OrderedRead("t") ELSE misread
    /\ w' = SparseMergeW
    /\ unsorted' = SetUnsortedW
    /\ pc' = "done"
    /\ UNCHANGED <<inputs, t, mask_vec, task, merged>>
    /\ u' = AliasedU(w')

----------------------------------------------------------------------------
(* The calls *)

\* the value an enumerated call stores at a position, when it stores one
UVal(i) == (i + 1) % SMod
AVal(i, j) == (2 * i + j + 2) % SMod
WVal(i) == (i + 7) % SMod

VectorsOf(n) == [0 .. (n - 1) -> {Absent, 0, 1}]

Masks(n) ==
    {[kind |-> "NoMask", vec |-> [i \in 0 .. (n - 1) |-> Absent]]}
    \cup {[kind |-> k, vec |-> v] : k \in MaskKinds, v \in VectorsOf(n)}

\* no adjacency-list iterator exists
NoTraversal ==
    /\ matrix = <<>>
    /\ row_ = 0
    /\ col_ = [row |-> 0, pos |-> 0]
    /\ ipc = "none"
    /\ yielded = <<>>
    /\ advances = 0
    /\ indexed = {}

\* the locals of a call on an output vector of size n
InitLocals(n) ==
    /\ size = n
    /\ t = [i \in 0 .. (n - 1) |-> Absent]
    /\ mask_vec = [i \in 0 .. (n - 1) |-> FALSE]
    /\ task = [i \in 0 .. (n - 1) |-> IdleTask]
    /\ merged = {}
    /\ kernel \in {"dense", "sparse"}
    /\ nthreads \in (IF kernel = "dense" THEN 1 .. MaxThreads ELSE {1})
    /\ w0 = w
    /\ unsorted = [u |-> FALSE, t |-> FALSE, w |-> FALSE]
    /\ misread = {}
    /\ calls = 1
    /\ wPrev = w
    /\ NoTraversal

\* a call that has entered its kernel
InitCall(n) == pc = "entry" /\ InitLocals(n)

\* every call on operands of size N
InitBounded ==
    /\ op \in Semirings
    /\ accum \in Accums
    /\ outp \in {"REPLACE", "MERGE"}
    /\ mask \in Masks(N)
    /\ \E S \in SUBSET (0 .. (N - 1)) :
           u = [i \in 0 .. (N - 1) |-> IF i \in S THEN UVal(i) ELSE Absent]
    /\ \E S \in SUBSET ((0 .. (N - 1)) \X (0 .. (N - 1))) :
           A = [i \in 0 .. (N - 1) |-> [j \in 0 .. (N - 1) |->
                    IF <<i, j>> \in S THEN AVal(i, j) ELSE Absent]]
    /\ aliased \in BOOLEAN
    /\ IF aliased
       THEN w = u
       ELSE \E S \in SUBSET (0 .. (N - 1)) :
                w = [i \in 0 .. (N - 1) |-> IF i \in S THEN WVal(i) ELSE Absent]
    /\ InitCall(N)

\* the two scenarios of the specification's section 8
ScenarioU == <<1, Absent, 3>>
ScenarioA == <<<<Absent, 5, Absent>>,
               <<Absent, Absent, Absent>>,
               <<Absent, 2, 4>>>>

InitScenario ==
    /\ op = "Arithmetic"
    /\ accum = "NoAccumulate"
    /\ outp = "REPLACE"
    /\ mask \in {[kind |-> "NoMask", vec |-> [i \in 0 .. 2 |-> Absent]],
                 [kind |-> "Structure",
                  vec |-> [i \in 0 .. 2 |-> IF i = 1 THEN 1 ELSE Absent]]}
    /\ u = [i \in 0 .. 2 |-> ScenarioU[i + 1]]
    /\ A = [i \in 0 .. 2 |-> [j \in 0 .. 2 |-> ScenarioA[i + 1][j + 1]]]
    /\ w = [i \in 0 .. 2 |-> Absent]
    /\ aliased = FALSE
    /\ InitCall(3)

Init == InitBounded \/ InitScenario

Next ==
    \/ DenseEarlyExit
    \/ DenseEnter
    \/ \E idx \in Idx : TaskStart(idx)
    \/ \E idx \in Idx : TaskRead(idx)
    \/ \E idx \in Idx : TaskWrite(idx)
    \/ DenseJoin
    \/ DenseMergeMove
    \/ \E idx \in Idx : DenseMerge(idx)
    \/ SparseEnter
    \/ SparseScatterAll
    \/ SparseSkip
    \/ SparseMerge

Spec == Init /\ [][Next]_vars

\* The dense kernel alone, in every regime and under every schedule of its
\* scatter tasks, on operands of size N: every subset of u; A with the same
\* columns stored in every row (the rows that collide most); w full or
\* empty; no mask, or a mask of each kind over the even indices.
InitDense ==
    /\ op \in Semirings
    /\ accum \in Accums
    /\ outp \in {"REPLACE", "MERGE"}
    /\ mask \in {[kind |-> "NoMask", vec |-> [i \in 0 .. (N - 1) |-> Absent]]}
          \cup {[kind |-> k,
                 vec |-> [i \in 0 .. (N - 1) |-> IF i % 2 = 0 THEN 1 ELSE Absent]] :
                    k \in MaskKinds}
    /\ \E S \in SUBSET (0 .. (N - 1)) :
           u = [i \in 0 .. (N - 1) |-> IF i \in S THEN UVal(i) ELSE Absent]
    /\ \E C \in SUBSET (0 .. (N - 1)) :
           A = [i \in 0 .. (N - 1) |-> [j \in 0 .. (N - 1) |->
                    IF j \in C THEN AVal(i, j) ELSE Absent]]
    /\ \E full \in BOOLEAN :
           w = [i \in 0 .. (N - 1) |-> IF full THEN WVal(i) ELSE Absent]
    /\ aliased = FALSE
    /\ InitCall(N)
    /\ kernel = "dense"

NextDense ==
    \/ DenseEarlyExit
    \/ DenseEnter
    \/ \E idx \in Idx : TaskStart(idx)
    \/ \E idx \in Idx : TaskRead(idx)
    \/ \E idx \in Idx : TaskWrite(idx)
    \/ DenseJoin
    \/ DenseMergeMove
    \/ \E idx \in Idx : DenseMerge(idx)

SpecDense == InitDense /\ [][NextDense]_vars

\* the values a call on the wide semiring stores: sums of two of them pass
\* the range of ScalarT
WideU(i) == (9 + 9 * i) % SMod
WideA(i, j) == (8 + 11 * i + j) % SMod

\* Both kernels on the semiring whose result type is wider than ScalarT,
\* on operands of size N: every pattern of u and of A, w full or empty, no
\* mask.
InitWide ==
    /\ op \in WideSemirings
    /\ accum \in Accums
    /\ outp \in {"REPLACE", "MERGE"}
    /\ mask = [kind |-> "NoMask", vec |-> [i \in 0 .. (N - 1) |-> Absent]]
    /\ \E S \in SUBSET (0 .. (N - 1)) :
           u = [i \in 0 .. (N - 1) |-> IF i \in S THEN WideU(i) ELSE Absent]
    /\ \E S \in SUBSET ((0 .. (N - 1)) \X (0 .. (N - 1))) :
           A = [i \in 0 .. (N - 1) |-> [j \in 0 .. (N - 1) |->
                    IF <<i, j>> \in S THEN WideA(i, j) ELSE Absent]]
    /\ \E full \in BOOLEAN :
           w = [i \in 0 .. (N - 1) |-> IF full THEN WVal(i) ELSE Absent]
    /\ aliased = FALSE
    /\ InitCall(N)

SpecWide == InitWide /\ [][Next]_vars

\* The caller passes the output of a finished call of the sparse kernel on
\* as the u of its next call, as it is (no re-sort), with a new empty
\* output vector and the same other arguments.
ChainCall ==
    /\ kernel = "sparse" /\ pc = "done"
    /\ calls < MaxCalls
    /\ ~aliased
    /\ u' = w
    /\ wPrev' = w
    /\ w' = [i \in Idx |-> Absent]
    /\ w0' = w'
    /\ unsorted' = [u |-> unsorted.w, t |-> FALSE, w |-> FALSE]
    /\ calls' = calls + 1
    /\ pc' = "entry"
    /\ t' = [i \in Idx |-> Absent]
    /\ mask_vec' = [i \in Idx |-> FALSE]
    /\ UNCHANGED <<kernel, size, mask, accum, op, A, outp, nthreads, aliased,
                   misread, task, merged, iter>>

\* The sparse kernel alone, on every call of size N with no mask or a
\* structural mask, w a vector of its own.
InitSparse ==
    /\ InitBounded
    /\ kernel = "sparse"
    /\ ~aliased
    /\ mask.kind \in {"NoMask", "Structure"}

NextSparse ==
    \/ SparseEnter
    \/ SparseScatterAll
    \/ SparseSkip
    \/ SparseMerge
    \/ ChainCall

SpecSparse == InitSparse /\ [][NextSparse]_vars

\* The call the dense kernel has finished is made again on the sparse
\* kernel: the same u, A, mask, operators and output control, and w as it
\* was before the first call.  wPrev keeps what the dense kernel left.
OtherKernel ==
    /\ kernel = "dense" /\ pc = "done"
    /\ calls < MaxCalls
    /\ ~aliased
    /\ kernel' = "sparse"
    /\ wPrev' = w
    /\ w' = w0
    /\ calls' = calls + 1
    /\ pc' = "entry"
    /\ t' = [i \in Idx |-> Absent]
    /\ mask_vec' = [i \in Idx |-> FALSE]
    /\ task' = [i \in Idx |-> IdleTask]
    /\ merged' = {}
    /\ UNCHANGED <<size, mask, accum, op, u, A, outp, nthreads, aliased, w0,
                   flags, iter>>

\* Every call of size N with no mask or a direct structural mask, w a
\* vector of its own, given to the dense kernel on one thread.
InitBoth ==
    /\ InitBounded
    /\ kernel = "dense"
    /\ nthreads = 1
    /\ ~aliased
    /\ mask.kind \in {"NoMask", "Structure"}

NextBoth == Next \/ OtherKernel

SpecBoth == InitBoth /\ [][NextBoth]_vars

\* The call that passed one vector as w and as u has finished and is made
\* again with u a separate copy of what that vector held before the call:
\* w as it was before the first call, the same A, operators and output
\* control.  wPrev keeps what the first call left.
SeparateCopyCall ==
    /\ pc = "done"
    /\ calls < MaxCalls
    /\ aliased
    /\ aliased' = FALSE
    /\ u' = w0
    /\ wPrev' = w
    /\ w' = w0
    /\ calls' = calls + 1
    /\ pc' = "entry"
    /\ t' = [i \in Idx |-> Absent]
    /\ mask_vec' = [i \in Idx |-> FALSE]
    /\ task' = [i \in Idx |-> IdleTask]
    /\ merged' = {}
    /\ unsorted' = [u |-> FALSE, t |-> FALSE, w |-> FALSE]
    /\ UNCHANGED <<kernel, size, mask, accum, op, A, outp, nthreads, w0,
                   misread, iter>>

\* Every call of size N with no mask, on either kernel, in which the
\* caller passes one vector as w and as u.
InitAlias ==
    /\ InitBounded
    /\ aliased
    /\ NoMask

NextAlias == Next \/ SeparateCopyCall

SpecAlias == InitAlias /\ [][NextAlias]_vars

----------------------------------------------------------------------------
(* The call site: vxm of the frontend, which hands the call to a kernel *)

\* size of a vector, rows and columns of a matrix
Dim(v) == Cardinality(DOMAIN v)
NRows(M) == Cardinality(DOMAIN M)
NCols(M) == Cardinality(DOMAIN M[0])

\* mutant: only u is compared with the rows of A
DimsMatchRows == Dim(u) = NRows(A)

\* sections 4.5 and 7: the dimensions the call is checked for before the
\* kernel is entered
DimsMatch ==
    /\ Dim(u) = NRows(A)
    /\ Dim(w) = NCols(A)
    /\ NoMask \/ Dim(mask.vec) = NCols(A)

\* the operands fit: the kernel is entered
CallAccepted ==
    /\ pc = "call"
    /\ DimsMatch
    /\ pc' = "entry"
    /\ UNCHANGED <<inputs, flags, w, u, t, mask_vec, task, merged>>

\* a precondition violation: the call fails before the kernel is entered
CallRejected ==
    /\ pc = "call"
    /\ ~DimsMatch
    /\ pc' = "rejected"
    /\ UNCHANGED <<inputs, flags, w, u, t, mask_vec, task, merged>>

\* Calls as a caller can write them, on operands of sizes up to N: u empty
\* or full, A square and full, w full, no mask or a structural mask holding index 0, w
\* a vector of its own or the object passed as u.
InitCallSite ==
    /\ op \in Semirings
    /\ accum \in Accums
    /\ outp \in {"REPLACE", "MERGE"}
    /\ \E nu \in 1 .. N, full \in BOOLEAN :
           u = [i \in 0 .. (nu - 1) |-> IF full THEN UVal(i) ELSE Absent]
    /\ \E n \in 1 .. N :
           A = [i \in 0 .. (n - 1) |-> [j \in 0 .. (n - 1) |-> AVal(i, j)]]
    /\ aliased \in BOOLEAN
    /\ IF aliased
       THEN w = u
       ELSE \E nw \in 1 .. N : w = [i \in 0 .. (nw - 1) |-> WVal(i)]
    /\ \/ mask = [kind |-> "NoMask", vec |-> [i \in DOMAIN w |-> Absent]]
       \/ \E nm \in 1 .. N :
              mask = [kind |-> "Structure",
                      vec |-> [i \in 0 .. (nm - 1) |-> IF i = 0 THEN 1 ELSE Absent]]
    /\ pc = "call"
    /\ InitLocals(Dim(w))

NextCall == CallAccepted \/ CallRejected \/ Next

SpecCall == InitCallSite /\ [][NextCall]_vars

----------------------------------------------------------------------------
(* The adjacency-list iterator, LilSparseMatrixIterator.hpp *)

\* A matrix is a function from its row indices to its rows; a row is the
\* sequence of its entries <<column, value>>.  An inner iterator (col_) is
\* [row, pos]: position pos of the storage of row `row`, begin() being
\* position 0 and end() the position after the last entry.

\* matrix_().size() - 1 in size_type: unsigned, so it wraps when the matrix
\* has no row
LastRow == (Cardinality(DOMAIN matrix) - 1) % (2 ^ IndexBits)

\* matrix_()[r].begin() and matrix_()[r].end()
Begin(r) == [row |-> r, pos |-> 0]
End(r) == [row |-> r, pos |-> Len(matrix[r])]

\* a == b on two inner iterators: positions of one row compare by position;
\* comparing iterators of two containers is undefined, the build may give
\* either answer
InnerEq(a, b) == IF a.row = b.row THEN {a.pos = b.pos} ELSE BOOLEAN

\* lines 67-69: col_ after ++row_ has made the row index r
ResetCol(r, c) == IF r # LastRow THEN Begin(r) ELSE c

\* line 65, col_ == matrix_()[r].end(): the answers it can give.  Indexing
\* a row the matrix does not have is undefined; the build may give either
\* answer.
AtRowEnd(r, c) == IF r \in DOMAIN matrix THEN InnerEq(c, End(r)) ELSE BOOLEAN

\* lines 64-71, fast_forward() from (r, c): the states it can return in,
\* each with the row indices it handed to matrix_()[.], seen being those
\* handed over so far.  Every test of line 65 indexes row r (the left
\* operand of && is evaluated first); line 68 indexes the row the next test
\* indexes.  On a matrix with rows, while r < size() - 1 the position c is
\* one of row r, and once r = size() - 1 the loop ends whatever the
\* comparison gives.
RECURSIVE fast_forward(_, _, _)
fast_forward(r, c, seen) ==
    UNION {IF b /\ r < LastRow
           THEN fast_forward(r + 1, ResetCol(r + 1, c), seen \cup {r})
           ELSE {[row_ |-> r, col_ |-> c, indexed |-> seen \cup {r}]}
           : b \in AtRowEnd(r, c)}

\* lines 49-52: the accessor constructed at (row, col)
Accessor(row, col) == fast_forward(row, col, {})

\* the end iterator: (last row, the end of the last row), which
\* fast_forward leaves as constructed
EndIterator == CHOOSE it \in Accessor(LastRow, End(LastRow)) : TRUE

\* lines 54-56, operator== against the end iterator: the answers it can give
EqualsEnd ==
    IF row_ = EndIterator.row_ THEN InnerEq(col_, EndIterator.col_)
                               ELSE {FALSE}

\* col_ can be dereferenced: it is a position of an entry
Dereferenceable ==
    /\ col_.row \in DOMAIN matrix
    /\ col_.pos < Len(matrix[col_.row])

\* what a read through a position that is no entry's can return as column
Garbage == {Absent} \cup (0 .. (MaxCols - 1))

\* lines 73-76, operator*: the keys (and values) it can return
Deref ==
    IF Dereferenceable
    THEN {<<row_, matrix[col_.row][col_.pos + 1][1],
            matrix[col_.row][col_.pos + 1][2]>>}
    ELSE {<<row_, j, Absent>> : j \in Garbage}

\* the number of entries the matrix stores
RECURSIVE EntriesUpTo(_)
EntriesUpTo(r) == IF r < 0 THEN 0 ELSE Len(matrix[r]) + EntriesUpTo(r - 1)
NumEntries == EntriesUpTo(Cardinality(DOMAIN matrix) - 1)

\* the begin iterator is constructed: (row 0, the begin of row 0)
IterBegin ==
    /\ ipc = "none" /\ DOMAIN matrix # {}
    /\ \E it \in Accessor(0, Begin(0)) :
           /\ row_' = it.row_
           /\ col_' = it.col_
           /\ indexed' = indexed \cup it.indexed
    /\ ipc' = "loop"
    /\ UNCHANGED <<call, matrix, yielded, advances>>

\* an inner iterator of no row (a value-initialised one)
NoPosition == [row |-> Absent, pos |-> 0]

\* lines 49-52 on a matrix with no row: the accessor constructed at row 0;
\* there is no row whose begin() col could be.  The loop over such an
\* iterator is not followed.
IterBeginNoRows ==
    /\ ipc = "none" /\ DOMAIN matrix = {}
    /\ \E it \in Accessor(0, NoPosition) :
           /\ row_' = it.row_
           /\ col_' = it.col_
           /\ indexed' = indexed \cup it.indexed
    /\ ipc' = "built"
    /\ UNCHANGED <<call, matrix, yielded, advances>>

\* the loop test finds the iterator equal to the end iterator
IterEnd ==
    /\ ipc = "loop"
    /\ TRUE \in EqualsEnd
    /\ ipc' = "done"
    /\ UNCHANGED <<call, matrix, row_, col_, yielded, advances, indexed>>

\* the loop test finds it different: the body dereferences it, then
\* operator++ (lines 58-62).  The traversal is followed for one advance
\* more than the matrix has entries.
IterStep ==
    /\ ipc = "loop"
    /\ FALSE \in EqualsEnd
    /\ advances <= NumEntries
    /\ \E e \in Deref : yielded' = Append(yielded, e)
    /\ \E it \in fast_forward(row_, [col_ EXCEPT !.pos = @ + 1], {}) :
           /\ row_' = it.row_
           /\ col_' = it.col_
           /\ indexed' = indexed \cup it.indexed
    /\ advances' = advances + 1
    /\ UNCHANGED <<call, matrix, ipc>>

\* the columns of S in increasing order, each with the value row r stores
RECURSIVE RowOf(_, _)
RowOf(r, S) ==
    IF S = {} THEN <<>>
    ELSE LET j == CHOOSE x \in S : \A y \in S : x <= y
         IN  <<<<j, AVal(r, j)>>>> \o RowOf(r, S \ {j})

\* no vxm call is under way
NoCall ==
    /\ kernel = "none" /\ size = 0 /\ pc = "none"
    /\ w = <<>> /\ w0 = <<>> /\ wPrev = <<>> /\ u = <<>> /\ A = <<>> /\ t = <<>>
    /\ mask = [kind |-> "NoMask", vec |-> <<>>]
    /\ accum = "NoAccumulate" /\ op = "Arithmetic" /\ outp = "MERGE"
    /\ nthreads = 1 /\ aliased = FALSE /\ calls = 0
    /\ mask_vec = <<>> /\ task = <<>> /\ merged = {}
    /\ unsorted = [u |-> FALSE, t |-> FALSE, w |-> FALSE]
    /\ misread = {}

\* every matrix of 0 to MaxRows rows over MaxCols columns, each row sorted
\* by column as the matrix keeps it
InitIter ==
    /\ \E n \in 0 .. MaxRows :
           \E P \in [0 .. (n - 1) -> SUBSET (0 .. (MaxCols - 1))] :
               matrix = [r \in 0 .. (n - 1) |-> RowOf(r, P[r])]
    /\ row_ = 0
    /\ col_ = [row |-> 0, pos |-> 0]
    /\ ipc = "none"
    /\ yielded = <<>>
    /\ advances = 0
    /\ indexed = {}
    /\ NoCall

NextIter == IterBegin \/ IterBeginNoRows \/ IterEnd \/ IterStep

SpecIter == InitIter /\ [][NextIter]_vars

----------------------------------------------------------------------------
(* What the specification says of a call, in its own terms *)

\* section 4.3: passes = complement XOR (present(i) AND (structure-only OR
\* storedValue(i) is truthy)); with the no-mask sentinel every index passes
Passes(i) ==
    IF mask.kind = "NoMask" THEN TRUE
    ELSE LET complement    == mask.kind \in {"Complement", "StructuralComplement"}
             structureOnly == mask.kind \in {"Structure", "StructuralComplement"}
             present       == mask.vec[i] # Absent
             stored        == mask.vec[i] # Absent /\ mask.vec[i] # 0
         IN  complement # (present /\ (structureOnly \/ stored))

\* the source indices that contribute to destination j of u . A
Contributors(j) == {idx \in Idx : u[idx] # Absent /\ A[idx][j] # Absent}

\* section 4.5: the semiring sum over S of u[idx] (x) A[idx][j]
RECURSIVE SemiringSum(_, _)
SemiringSum(S, j) ==
    LET i == CHOOSE x \in S : \A y \in S : x <= y
    IN  IF S = {i} THEN Mult(u[i], A[i][j])
        ELSE Add(Mult(u[i], A[i][j]), SemiringSum(S \ {i}, j))

\* entry j of the semiring product u . A, as a scalar of w
Product(j) ==
    IF Contributors(j) = {} THEN Absent
    ELSE SemiringSum(Contributors(j), j) % SMod

\* the operands of the scenarios of section 8, under (add, multiply)
IsScenario ==
    /\ size = 3 /\ op = "Arithmetic"
    /\ u = [i \in 0 .. 2 |-> ScenarioU[i + 1]]
    /\ A = [i \in 0 .. 2 |-> [j \in 0 .. 2 |-> ScenarioA[i + 1][j + 1]]]

Done == pc = "done"

SingleWorker == kernel = "dense" => nthreads = 1

----------------------------------------------------------------------------
(* The claims *)

\* C1: with no mask and no accumulate operator, u and A each holding an
\* entry, and the scatter run by one worker, the call leaves w equal to the
\* semiring product: w[j] is present iff some idx has u[idx] and A[idx][j],
\* it is then the semiring sum of u[idx] (x) A[idx][j], and nothing of the
\* prior w survives; the scenario of section 8 gives w = {1: 11, 2: 12}.
C1_ProductExactly ==
    (Done /\ NoMask /\ accum = "NoAccumulate" /\ SingleWorker
          /\ nvals(u) > 0 /\ nvalsMatrix(A) > 0)
    => /\ \A j \in Idx : w[j] = Product(j)
       /\ IsScenario => w = [i \in 0 .. 2 |-> <<Absent, 11, 12>>[i + 1]]

\* the temporary's entry i converted to the scalar type of w
TempAsW(i) == IF t[i] = Absent THEN Absent ELSE t[i] % SMod

\* C2: with an accumulate operator (mask or no mask, REPLACE or MERGE), at
\* every index i where the mask passes (or there is none) and the temporary
\* holds a value, the call ends with w[i] = accum(w_before[i], temp[i]) if w
\* held an entry at i before the call, and with w[i] = temp[i] otherwise.
C2_AccumulateMerge ==
    (Done /\ accum # "NoAccumulate")
    => \A i \in Idx :
           (Passes(i) /\ t[i] # Absent)
           => w[i] = (IF w0[i] # Absent THEN Accum(w0[i], t[i]) % SMod
                                       ELSE TempAsW(i))

\* C3: with no accumulate operator, a mask and MERGE, after the call every
\* index outside the mask holds what w held before, and every index inside
\* the mask holds temp[i] if the temporary has a value there and no entry
\* otherwise.
C3_MaskedMerge ==
    (Done /\ accum = "NoAccumulate" /\ ~NoMask /\ outp = "MERGE")
    => \A i \in Idx : w[i] = (IF Passes(i) THEN TempAsW(i) ELSE w0[i])

\* C4: with no accumulate operator, a mask and REPLACE, w holds nothing at
\* the indices that fail the mask; at an index that passes it holds the
\* temporary's value where the temporary has one, and otherwise at most the
\* entry w held there before; the masked scenario of section 8 gives
\* w = {1: 11}.
C4_MaskedReplace ==
    (Done /\ accum = "NoAccumulate" /\ ~NoMask /\ outp = "REPLACE")
    => /\ \A i \in Idx :
              /\ ~Passes(i) => w[i] = Absent
              /\ (Passes(i) /\ t[i] # Absent) => w[i] = TempAsW(i)
              /\ (Passes(i) /\ t[i] = Absent) => w[i] \in {Absent, w0[i]}
       /\ (IsScenario /\ mask.kind = "Structure"
             /\ mask.vec = [i \in 0 .. 2 |-> IF i = 1 THEN 1 ELSE Absent])
          => w = [i \in 0 .. 2 |-> <<Absent, 11, Absent>>[i + 1]]

\* C5: with an accumulate operator, a mask and REPLACE, once the call
\* returns w holds no entry at any index that fails the mask's membership
\* test.
C5_ReplaceClearsOutsideMask ==
    (Done /\ accum # "NoAccumulate" /\ ~NoMask /\ outp = "REPLACE")
    => \A i \in Idx : ~Passes(i) => w[i] = Absent

\* C6: with an accumulate operator, a mask and MERGE, every index that
\* fails the mask's membership test has after the call the presence and the
\* value it had in w before the call.
C6_MergeKeepsOutsideMask ==
    (Done /\ accum # "NoAccumulate" /\ ~NoMask /\ outp = "MERGE")
    => \A i \in Idx : ~Passes(i) => w[i] = w0[i]

\* C7: wherever a kernel tests mask membership of an index (REPLACE
\* pre-pass, scatter filter, merge pass; dense and sparse kernel), the test
\* equals complement XOR (present AND (structure-only OR stored value
\* truthy)) in each of the four mask modes, for an absent entry, a stored
\* false and a stored true; with the no-mask sentinel every index passes.
C7_MaskTestIsFormula ==
    \A i \in Idx :
        /\ (kernel = "dense" /\ ~NoMask)
           => /\ (~DenseRemove(i)) = Passes(i)
              /\ MaskTest(i) = Passes(i)
        /\ (kernel = "dense" /\ NoMask)
           => ScatterCols(i) = {c \in Idx : A[i][c] # Absent}
        /\ (kernel = "sparse" /\ pc # "entry" /\ ~NoMask)
           => mask_vec[i] = Passes(i)
        /\ (kernel = "sparse" /\ pc # "entry" /\ NoMask)
           => SparseAllowed(i)

\* what section 4.5 makes of w when the product is empty
EmptyProductResult(i) ==
    IF accum = "NoAccumulate"
    THEN IF NoMask THEN {Absent}
         ELSE IF outp = "REPLACE"
              THEN (IF Passes(i) THEN {Absent, w0[i]} ELSE {Absent})
              ELSE (IF Passes(i) THEN {Absent} ELSE {w0[i]})
    ELSE IF ~NoMask /\ outp = "REPLACE" /\ ~Passes(i) THEN {Absent}
         ELSE {w0[i]}

\* C8: if A.nvals() = 0 or u.nvals() = 0 no scatter work runs, but the
\* kernel still applies the clear/REPLACE rule of its regime, so w ends as
\* that regime leaves it for an empty product; with no mask, no accumulate
\* and REPLACE a non-empty w becomes empty (dense and sparse kernel).
C8_EmptyProductRule ==
    (Done /\ ~NonEmpty)
    => /\ \A i \in Idx : t[i] = Absent
       /\ \A i \in Idx : w[i] \in EmptyProductResult(i)
       /\ (NoMask /\ accum = "NoAccumulate" /\ outp = "REPLACE")
          => \A i \in Idx : w[i] = Absent

\* the temporary of the dense kernel when one worker runs the scatter: the
\* source indices in order, each combined as lines 291-300 and 312-321 do
RECURSIVE SingleWorkerTemp(_, _, _)
SingleWorkerTemp(col, idx, acc) ==
    IF idx = size THEN acc
    ELSE SingleWorkerTemp(col, idx + 1,
             IF hasElement(u, idx) /\ col \in ScatterCols(idx)
             THEN ScatterValue(idx, col, acc # Absent, acc) % TMod
             ELSE acc)

\* C9: in the dense kernel the read-combine-write of a slot of the temporary
\* is synchronized wherever two source indices can write the same column:
\* under every interleaving of the tasks' steps the final temp[col] is the
\* semiring sum of all contributions to col, none is lost, and the result
\* is that of a single worker.
C9_NoLostContribution ==
    (kernel = "dense" /\ pc \in {"merge", "done"} /\ NonEmpty)
    => \A col \in Idx : t[col] = SingleWorkerTemp(col, 0, Absent)

\* C10: within one call of the dense kernel no iteration of the merge loop
\* begins, and w is not written by it, before every task of the scatter
\* loop has finished all its writes to the temporary.
C10_MergeAfterScatter ==
    (kernel = "dense"
        /\ (pc = "merge" \/ merged # {} \/ (pc = "done" /\ NonEmpty)))
    => \A i \in Idx : task[i].pc = "done"

\* C10, witness: the merge loop is under way after two concurrent tasks
\* wrote the same slot of the temporary
C10_Witness ==
    /\ kernel = "dense" /\ nthreads > 1 /\ pc = "merge" /\ merged # {}
    /\ \E col \in Idx : Cardinality(Contributors(col)) > 1 /\ t[col] # Absent
    /\ \E col \in Idx : t[col] # SingleWorkerTemp(col, 0, Absent)

\* C11: within one call every mutation of w (clear, boolRemoveElement,
\* setElement, mergeSetElement, whole-vector assignment) happens in the
\* final merge pass: before the scatter and while it runs, w is what it was
\* when the call began.
C11_WritesOnlyInMerge == pc \in {"entry", "scatter"} => w = w0

Mismatch ==
    \/ Dim(u) # NRows(A)
    \/ Dim(w) # NCols(A)
    \/ ~NoMask /\ Dim(mask.vec) # NCols(A)

RECURSIVE KeysFrom(_)
KeysFrom(r) ==
    IF r > LastRow THEN <<>>
    ELSE [k \in 1 .. Len(matrix[r]) |->
             <<r, matrix[r][k][1], matrix[r][k][2]>>] \o KeysFrom(r + 1)

\* s is a beginning of q
IsPrefix(s, q) == Len(s) <= Len(q) /\ \A k \in 1 .. Len(s) : s[k] = q[k]

\* C13: a traversal from the begin iterator until it equals the end
\* iterator yields every stored entry exactly once, the last row's
\* included, in row order and within a row in column order, each
\* dereference giving (current row, column) of a real entry of that row:
\* what it has yielded so far is a beginning of the row-major list of the
\* entries, and all of it when the traversal ends.
C13_YieldsEveryEntryOnce ==
    ipc \in {"loop", "done"}
    => /\ IsPrefix(yielded, KeysFrom(0))
       /\ ipc = "done" => yielded = KeysFrom(0)

\* C14: after construction and after every operator++, col_ is a position
\* of an entry of row row_, or the iterator is the end sentinel (last row,
\* the end of the last row); so col_ always belongs to row row_, also
\* after fast_forward has incremented the row index.
C14_PositionInCurrentRow ==
    ipc = "loop"
    => \/ col_.row = row_ /\ col_.pos < Len(matrix[row_])
       \/ row_ = LastRow /\ col_ = End(LastRow)

\* C15: on a matrix with at least one row, whatever rows are empty, the
\* iterator constructed at (row 0, the begin of row 0) equals the end
\* iterator (last row, the end of the last row) under operator== once it
\* has advanced over the stored entries, so that the loop "until it equals
\* end" stops there and advances no further.
C15_ReachesEnd ==
    (ipc \in {"loop", "done"} /\ advances >= NumEntries)
    => (advances = NumEntries /\ EqualsEnd = {TRUE})

\* entry col of the temporary when every term is the semiring product
\* u[idx] (x) A[idx][col], summed in the semiring's result type
TempOfProducts(col) ==
    IF Contributors(col) = {} THEN Absent
    ELSE SemiringSum(Contributors(col), col)

\* C17: every term scattered into the temporary is multiply(u[idx], weight),
\* the vector's value on the left and the matrix weight on the right, in
\* the dense and in the sparse kernel: with no mask, one worker and u not
\* aliased, the temporary a kernel leaves is the semiring sum of
\* u[idx] (x) A[idx][col], also when multiply does not commute.
C17_VectorIsLeftOperand ==
    (pc \in {"merge", "done"} /\ NoMask /\ SingleWorker /\ ~aliased
        /\ TBits(op) = ScalarBits)
    => \A col \in Idx : t[col] = TempOfProducts(col)

\* C18: when the semiring's result type is wider than the scalar type of
\* the vectors, every value held in the temporary is held in the result
\* type, and no partial sum is narrowed to the scalar type of w before it
\* is stored there: with no mask and one worker the temporary a kernel
\* leaves is the semiring sum computed in the result type.
C18_TempInResultType ==
    (pc \in {"merge", "done"} /\ NoMask /\ SingleWorker /\ ~aliased
        /\ TBits(op) > ScalarBits)
    => \A col \in Idx : t[col] = TempOfProducts(col)

\* C19: the sparse kernel never calls idxBegin / idxEnd / wgtBegin on a
\* sparse vector whose unsorted flag is set: not on its temporary after
\* out-of-order insertions of the scatter, and not on a u that is the
\* output of an earlier call passed on without a re-sort.
C19_OrderedReadsOnSorted == misread = {}

\* C20: the dense and the sparse kernel are observationally equivalent:
\* given the same u, A, prior w, direct structural mask (or none),
\* accumulate choice and output control, the sparse kernel leaves in w the
\* entries the dense kernel (on one thread) left, also when A or u is
\* empty and when the mask covers an index the product has no value for.
C20_KernelsAgree ==
    (kernel = "sparse" /\ calls = 2 /\ Done) => w = wPrev

\* C21: when one vector is passed as w and as u (either kernel, no mask,
\* no accumulate, one worker), the kernel has not cleared or overwritten
\* the vector when the scatter over a non-empty A reads it, and the call
\* leaves in w what the same call leaves when u is a separate copy of the
\* vector's contents before the call.
C21_AliasedAsSeparateCopy ==
    (NoMask /\ accum = "NoAccumulate" /\ SingleWorker) =>
        /\ (aliased /\ pc = "scatter" /\ nvalsMatrix(A) > 0) => u = w0
        /\ (~aliased /\ calls = 2 /\ Done) => w = wPrev

\* C22: constructing the iterator on a matrix with no row, fast_forward
\* included, hands no row index to the matrix: with size() - 1 wrapped, the
\* loop still indexes no row outside [0, size).
C22_NoRowsIndexNoRow ==
    (ipc = "built" /\ DOMAIN matrix = {}) => indexed \subseteq DOMAIN matrix

====
